---- MODULE Spec2Model ----
(* A model of the LC-3 virtual machine of src/lc3.c: machine state, memory   *)
(* interface with keyboard MMIO, instruction handlers, trap routines, image  *)
(* loader, terminal handling and the dispatch loop of main.                  *)
EXTENDS Integers, Sequences, FiniteSets, TLC

(***************************************************************************)
(* 16-bit words and bit utilities                                          *)
(***************************************************************************)
MAX_MEMORY == 65536

Word == 0 .. (MAX_MEMORY - 1)

\* conversion of a C integer to uint16_t
U16(x) == x % MAX_MEMORY

Pow2(n) == 2 ^ n

\* x >> n on an unsigned value
Shr(x, n) == x \div Pow2(n)

RECURSIVE BitAnd(_, _)
BitAnd(a, b) ==
    IF a = 0 \/ b = 0 THEN 0
    ELSE (a % 2) * (b % 2) + 2 * BitAnd(a \div 2, b \div 2)

RECURSIVE BitOr(_, _)
BitOr(a, b) ==
    IF a = 0 THEN b
    ELSE IF b = 0 THEN a
    ELSE (IF a % 2 = 1 \/ b % 2 = 1 THEN 1 ELSE 0) + 2 * BitOr(a \div 2, b \div 2)

\* ~x truncated to 16 bits
BitNot16(x) == (MAX_MEMORY - 1) - x

\* swap16: (x << 8) | (x >> 8), truncated to uint16_t
swap16(x) == BitOr(U16(x * 256), Shr(x, 8))

\* the low 16 bits of the int 0xFFFF << bit_count.  For bit_count = 16 the
\* shift overflows int, which C leaves undefined; a build that wraps the
\* shift and a build that drops the or-assignment both leave the low 16 bits
\* of x as they are, which is the value 0 here.
fill16(bit_count) == (Pow2(16 - bit_count) - 1) * Pow2(bit_count)

\* sign_extend: the test (x >> (bit_count-1)) & 1 == 1 parses as
\* (x >> (bit_count-1)) & (1 == 1), i.e. (x >> (bit_count-1)) & 1; the fill is
\* or-ed into x and the result truncated to uint16_t.
\* sign_extend that tests the bit above the field
sign_extend_bit_above(x, bit_count) ==
    IF BitAnd(Shr(x, bit_count), 1) # 0
    THEN U16(BitOr(x, fill16(bit_count)))
    ELSE x

sign_extend(x, bit_count) ==
    IF BitAnd(Shr(x, bit_count - 1), 1) # 0
    THEN U16(BitOr(x, fill16(bit_count)))
    ELSE x

(***************************************************************************)
(* Enumerations of the source                                              *)
(***************************************************************************)
R_R0 == 0
R_R7 == 7
R_PC == 8
R_COND == 9
R_COUNT == 10

FL_POS == 1
FL_ZRO == 2
FL_NEG == 4

OP_BR == 0
OP_ADD == 1
OP_LD == 2
OP_ST == 3
OP_JSR == 4
OP_AND == 5
OP_LDR == 6
OP_STR == 7
OP_RTI == 8
OP_NOT == 9
OP_LDI == 10
OP_STI == 11
OP_JMP == 12
OP_RES == 13
OP_LEA == 14
OP_TRAP == 15

TRAP_GETC == 32
TRAP_OUT == 33
TRAP_PUTS == 34
TRAP_IN == 35
TRAP_PUTSP == 36
TRAP_HALT == 37

MR_KBSR == 65024
MR_KBDR == 65026

PC_START == 12288

\* getchar() returns EOF (-1) at end of input
EOF_CHAR == -1

(***************************************************************************)
(* State                                                                   *)
(***************************************************************************)
VARIABLES
    memory,      \* uint16_t memory[MAX_MEMORY]: the non-zero cells, others are 0
    reg,         \* uint16_t reg[R_COUNT]
    running,     \* int running
    phase,       \* position in main: "load", "signal", "tty", "run", "exited", "aborted"
    argv,        \* the image files named on the command line, in order
    loaded,      \* number of images read so far (i - 1 of the loop in main)
    handler,     \* TRUE once signal(SIGINT, handle_interrupt) has been called
    tio,         \* the terminal attributes of standard input
    orig_tio,    \* struct termios orig_tio
    start_tio,   \* the terminal attributes when the process started
    status,      \* exit status of the process, "none" while it runs
    fd_in,       \* bytes the host has written to standard input, not yet read(2)
    stdin_buf,   \* bytes read(2) into the stdio buffer of stdin, not yet returned
    closed,      \* TRUE once the host has closed standard input
    supplied,    \* number of bytes the host has supplied so far
    out,         \* bytes written to standard output
    last,        \* history: the last instruction the dispatch loop executed
    steps,       \* number of instructions executed
    se           \* an application of sign_extend: arguments x, n and result y

vars == <<memory, reg, running, phase, argv, loaded, handler, tio, orig_tio,
          start_tio, status, fd_in, stdin_buf, closed, supplied, out, last, steps,
          se>>

\* memory[address]
Mem(m, address) == IF address \in DOMAIN m THEN m[address] ELSE 0

\* memory[address] = value, keeping only the non-zero cells
Store(m, address, value) ==
    IF value = 0
    THEN [a \in (DOMAIN m) \ {address} |-> m[a]]
    ELSE [a \in (DOMAIN m) \cup {address} |-> IF a = address THEN value ELSE m[a]]

(***************************************************************************)
(* Host input: select(2) on the descriptor and getchar(3) on the stream    *)
(***************************************************************************)
\* check_key: select() reports standard input readable when bytes are waiting
\* on the descriptor or the descriptor is at end of file
check_key(M) == M.fd_in # <<>> \/ M.closed

\* getchar() returns without blocking
getchar_ready(M) == M.stdin_buf # <<>> \/ M.fd_in # <<>> \/ M.closed

\* the value getchar() returns: the next buffered byte, else the first byte of
\* what read(2) delivers, else EOF
getchar_value(M) ==
    IF M.stdin_buf # <<>> THEN Head(M.stdin_buf)
    ELSE IF M.fd_in # <<>> THEN Head(M.fd_in)
    ELSE EOF_CHAR

\* the stream after getchar(): an empty buffer is refilled with everything
\* waiting on the descriptor
getchar_state(M) ==
    IF M.stdin_buf # <<>> THEN [M EXCEPT !.stdin_buf = Tail(M.stdin_buf)]
    ELSE IF M.fd_in # <<>> THEN [M EXCEPT !.stdin_buf = Tail(M.fd_in), !.fd_in = <<>>]
    ELSE M

(***************************************************************************)
(* Memory interface                                                        *)
(***************************************************************************)
\* mem_write that stores the low byte of the value only
mem_write_low_byte(M, address, value) ==
    [M EXCEPT !.memory = Store(M.memory, address, value % 256),
              !.acc = Append(M.acc, <<"w", address, value>>)]

mem_write(M, address, value) ==
    [M EXCEPT !.memory = Store(M.memory, address, value),
              !.acc = Append(M.acc, <<"w", address, value>>)]

\* mem_read that polls the keyboard on a read of KBDR as well
mem_read_state_kbdr_polls(M, address) ==
    LET M1 == IF address \in {MR_KBSR, MR_KBDR}
              THEN IF check_key(M)
                   THEN [getchar_state(M) EXCEPT
                           !.memory = Store(Store(M.memory, MR_KBSR, Pow2(15)),
                                            MR_KBDR, U16(getchar_value(M))),
                           !.kbd = Append(M.kbd, U16(getchar_value(M)))]
                   ELSE [M EXCEPT !.memory = Store(M.memory, MR_KBSR, 0)]
              ELSE M
    IN [M1 EXCEPT !.acc = Append(M1.acc, <<"r", address, Mem(M1.memory, address)>>)]

\* the machine after mem_read(address); the value returned is mem_read below
mem_read_state(M, address) ==
    LET M1 == IF address = MR_KBSR
              THEN IF check_key(M)
                   THEN [getchar_state(M) EXCEPT
                           !.memory = Store(Store(M.memory, MR_KBSR, Pow2(15)),
                                            MR_KBDR, U16(getchar_value(M))),
                           !.kbd = Append(M.kbd, U16(getchar_value(M)))]
                   ELSE [M EXCEPT !.memory = Store(M.memory, MR_KBSR, 0)]
              ELSE M
    IN [M1 EXCEPT !.acc = Append(M1.acc, <<"r", address, Mem(M1.memory, address)>>)]

\* the value returned by mem_read(address)
mem_read(M, address) == Mem(mem_read_state(M, address).memory, address)

(***************************************************************************)
(* Instruction handlers                                                    *)
(***************************************************************************)
update_condition_flags(M, r) ==
    IF M.reg[r] = 0 THEN [M EXCEPT !.reg[R_COND] = FL_ZRO]
    ELSE IF Shr(M.reg[r], 15) # 0 THEN [M EXCEPT !.reg[R_COND] = FL_NEG]
    ELSE [M EXCEPT !.reg[R_COND] = FL_POS]

\* ADD whose sum is not truncated to 16 bits
op_add_no_wrap(M, instr) ==
    LET dr == BitAnd(Shr(instr, 9), 7)
        sr1 == BitAnd(Shr(instr, 6), 7)
        imm_flag == BitAnd(Shr(instr, 5), 1)
        imm5 == sign_extend(BitAnd(instr, 31), 5)
        sr2 == BitAnd(instr, 7)
    IN IF imm_flag # 0
       THEN update_condition_flags([M EXCEPT !.reg[dr] = M.reg[sr1] + imm5], dr)
       ELSE update_condition_flags([M EXCEPT !.reg[dr] = M.reg[sr1] + M.reg[sr2]], dr)

op_add(M, instr) ==
    LET dr == BitAnd(Shr(instr, 9), 7)
        sr1 == BitAnd(Shr(instr, 6), 7)
        imm_flag == BitAnd(Shr(instr, 5), 1)
        imm5 == sign_extend(BitAnd(instr, 31), 5)
        sr2 == BitAnd(instr, 7)
    IN IF imm_flag # 0
       THEN update_condition_flags([M EXCEPT !.reg[dr] = U16(M.reg[sr1] + imm5)], dr)
       ELSE update_condition_flags([M EXCEPT !.reg[dr] = U16(M.reg[sr1] + M.reg[sr2])], dr)

op_and(M, instr) ==
    LET dr == BitAnd(Shr(instr, 9), 7)
        sr1 == BitAnd(Shr(instr, 6), 7)
        imm_flag == BitAnd(Shr(instr, 5), 1)
        imm5 == sign_extend(BitAnd(instr, 31), 5)
        sr2 == BitAnd(instr, 7)
    IN IF imm_flag # 0
       THEN update_condition_flags([M EXCEPT !.reg[dr] = BitAnd(M.reg[sr1], imm5)], dr)
       ELSE update_condition_flags([M EXCEPT !.reg[dr] = BitAnd(M.reg[sr1], M.reg[sr2])], dr)

op_not(M, instr) ==
    LET dr == BitAnd(Shr(instr, 9), 7)
        sr == BitAnd(Shr(instr, 6), 7)
    IN update_condition_flags([M EXCEPT !.reg[dr] = BitNot16(M.reg[sr])], dr)

\* BR that branches on any non-zero nzp field, whatever COND is
op_br_ignores_cond(M, instr) ==
    LET cond_flag == BitAnd(Shr(instr, 9), 7)
        pc_offset9 == sign_extend(BitAnd(instr, 511), 9)
    IN IF cond_flag # 0
       THEN [M EXCEPT !.reg[R_PC] = U16(M.reg[R_PC] + pc_offset9)]
       ELSE M

op_br(M, instr) ==
    LET cond_flag == BitAnd(Shr(instr, 9), 7)
        pc_offset9 == sign_extend(BitAnd(instr, 511), 9)
    IN IF BitAnd(cond_flag, M.reg[R_COND]) # 0
       THEN [M EXCEPT !.reg[R_PC] = U16(M.reg[R_PC] + pc_offset9)]
       ELSE M

op_jmp(M, instr) ==
    LET base == BitAnd(Shr(instr, 6), 7)
    IN [M EXCEPT !.reg[R_PC] = M.reg[base]]

\* JSR that saves the linkage after the program counter has been changed
op_jsr_link_after(M, instr) ==
    LET pc_offset11 == sign_extend(BitAnd(instr, 2047), 11)
        base == BitAnd(Shr(instr, 6), 7)
        M1 == IF BitAnd(Shr(instr, 11), 1) # 0
              THEN [M EXCEPT !.reg[R_PC] = U16(M.reg[R_PC] + pc_offset11)]
              ELSE [M EXCEPT !.reg[R_PC] = M.reg[base]]
    IN [M1 EXCEPT !.reg[R_R7] = M1.reg[R_PC]]

op_jsr(M, instr) ==
    LET M1 == [M EXCEPT !.reg[R_R7] = M.reg[R_PC]]
        pc_offset11 == sign_extend(BitAnd(instr, 2047), 11)
        base == BitAnd(Shr(instr, 6), 7)
    IN IF BitAnd(Shr(instr, 11), 1) # 0
       THEN [M1 EXCEPT !.reg[R_PC] = U16(M1.reg[R_PC] + pc_offset11)]
       ELSE [M1 EXCEPT !.reg[R_PC] = M1.reg[base]]

op_ld(M, instr) ==
    LET dr == BitAnd(Shr(instr, 9), 7)
        pc_offset9 == sign_extend(BitAnd(instr, 511), 9)
        address == U16(M.reg[R_PC] + pc_offset9)
        M1 == mem_read_state(M, address)
    IN update_condition_flags([M1 EXCEPT !.reg[dr] = mem_read(M, address)], dr)

op_ldi(M, instr) ==
    LET dr == BitAnd(Shr(instr, 9), 7)
        pc_offset9 == sign_extend(BitAnd(instr, 511), 9)
        address == U16(M.reg[R_PC] + pc_offset9)
        M1 == mem_read_state(M, address)
        pointer == mem_read(M, address)
        M2 == mem_read_state(M1, pointer)
    IN update_condition_flags([M2 EXCEPT !.reg[dr] = mem_read(M1, pointer)], dr)

op_ldr(M, instr) ==
    LET dr == BitAnd(Shr(instr, 9), 7)
        base == BitAnd(Shr(instr, 6), 7)
        offset6 == sign_extend(BitAnd(instr, 63), 6)
        address == U16(M.reg[base] + offset6)
        M1 == mem_read_state(M, address)
    IN update_condition_flags([M1 EXCEPT !.reg[dr] = mem_read(M, address)], dr)

\* LEA that leaves the condition flags alone
op_lea_no_flags(M, instr) ==
    LET dr == BitAnd(Shr(instr, 9), 7)
        pc_offset9 == sign_extend(BitAnd(instr, 511), 9)
    IN [M EXCEPT !.reg[dr] = U16(M.reg[R_PC] + pc_offset9)]

op_lea(M, instr) ==
    LET dr == BitAnd(Shr(instr, 9), 7)
        pc_offset9 == sign_extend(BitAnd(instr, 511), 9)
    IN update_condition_flags([M EXCEPT !.reg[dr] = U16(M.reg[R_PC] + pc_offset9)], dr)

op_st(M, instr) ==
    LET sr == BitAnd(Shr(instr, 9), 7)
        pc_offset9 == sign_extend(BitAnd(instr, 511), 9)
    IN mem_write(M, U16(M.reg[R_PC] + pc_offset9), M.reg[sr])

op_sti(M, instr) ==
    LET sr == BitAnd(Shr(instr, 9), 7)
        pc_offset9 == sign_extend(BitAnd(instr, 511), 9)
        address == U16(M.reg[R_PC] + pc_offset9)
        M1 == mem_read_state(M, address)
    IN mem_write(M1, mem_read(M, address), M1.reg[sr])

op_str(M, instr) ==
    LET sr == BitAnd(Shr(instr, 9), 7)
        base == BitAnd(Shr(instr, 6), 7)
        offset6 == sign_extend(BitAnd(instr, 63), 6)
    IN mem_write(M, U16(M.reg[base] + offset6), M.reg[sr])

(***************************************************************************)
(* Trap routines                                                           *)
(***************************************************************************)
\* putc(c, stdout) followed by fflush: the byte (unsigned char)c is emitted
putc(M, c) == [M EXCEPT !.out = Append(M.out, c % 256)]

\* printf/puts of a text followed by fflush
put_bytes(M, bytes) == [M EXCEPT !.out = M.out \o bytes]

\* "HALT\n" as written by puts("HALT")
HALT_TEXT == <<72, 65, 76, 84, 10>>

\* "Enter a character: "
IN_PROMPT == <<69, 110, 116, 101, 114, 32, 97, 32, 99, 104, 97, 114, 97, 99,
               116, 101, 114, 58, 32>>

\* GETC that updates the condition flags from R0
trap_getc_flags(M) ==
    LET c == U16(getchar_value(M))
    IN update_condition_flags([getchar_state(M) EXCEPT !.reg[R_R0] = c], R_R0)

trap_getc(M) ==
    LET c == U16(getchar_value(M))
    IN [getchar_state(M) EXCEPT !.reg[R_R0] = c]

trap_out(M) == putc(M, M.reg[R_R0])

\* the indices c - memory visited by while (*c) ... ++c starting at index a:
\* every cell up to and including the first zero cell; the pointer is not
\* wrapped, so after memory[MAX_MEMORY - 1] it reaches index MAX_MEMORY, which
\* is outside the array
RECURSIVE scan_cells(_, _)
scan_cells(m, a) ==
    IF a >= MAX_MEMORY THEN <<a>>
    ELSE IF Mem(m, a) = 0 THEN <<a>>
    ELSE <<a>> \o scan_cells(m, a + 1)

\* the scan from index a leaves the array
scan_overrun(m, a) == scan_cells(m, a)[Len(scan_cells(m, a))] >= MAX_MEMORY

\* What a read outside the array yields is not defined: the words found there
\* before a zero word, or a fault that kills the process.
NoUB == [crash |-> FALSE, words |-> <<>>]

UBOutcomes == {NoUB, [crash |-> FALSE, words |-> <<10840>>],
               [crash |-> TRUE, words |-> <<>>]}

\* the non-zero words the scan from index a processes, in order
scan_words(m, a, ub) ==
    LET cells == scan_cells(m, a)
        inside == SelectSeq(cells, LAMBDA c : c < MAX_MEMORY /\ Mem(m, c) # 0)
    IN [i \in 1 .. Len(inside) |-> Mem(m, inside[i])]
       \o (IF scan_overrun(m, a) THEN ub.words ELSE <<>>)

scan_log(M, a) ==
    LET cells == scan_cells(M.memory, a)
    IN [M EXCEPT !.acc = M.acc \o [i \in 1 .. Len(cells) |->
                                     <<"s", cells[i], Mem(M.memory, cells[i])>>]]

RECURSIVE puts_loop(_, _)
puts_loop(M, words) ==
    IF words = <<>> THEN M
    ELSE puts_loop(putc(M, Head(words)), Tail(words))

trap_puts(M, ub) ==
    LET a == M.reg[R_R0]
        M1 == puts_loop(scan_log(M, a), scan_words(M.memory, a, ub))
    IN IF scan_overrun(M.memory, a) /\ ub.crash
       THEN [M1 EXCEPT !.crashed = TRUE]
       ELSE M1

trap_in(M) ==
    LET M1 == put_bytes(M, IN_PROMPT)
        c == U16(getchar_value(M1))
        M2 == putc(getchar_state(M1), c)
    IN [M2 EXCEPT !.reg[R_R0] = c]

RECURSIVE putsp_loop(_, _)
putsp_loop(M, words) ==
    IF words = <<>> THEN M
    ELSE LET fc == BitAnd(Head(words), 255)
             sc == Shr(Head(words), 8)
             M1 == putc(M, fc)
         IN putsp_loop(IF sc # 0 THEN putc(M1, sc) ELSE M1, Tail(words))

\* PUTSP that emits the low byte of every word only
trap_putsp_low_only(M, ub) ==
    LET a == M.reg[R_R0]
        M1 == puts_loop(scan_log(M, a), scan_words(M.memory, a, ub))
    IN IF scan_overrun(M.memory, a) /\ ub.crash
       THEN [M1 EXCEPT !.crashed = TRUE]
       ELSE M1

trap_putsp(M, ub) ==
    LET a == M.reg[R_R0]
        M1 == putsp_loop(scan_log(M, a), scan_words(M.memory, a, ub))
    IN IF scan_overrun(M.memory, a) /\ ub.crash
       THEN [M1 EXCEPT !.crashed = TRUE]
       ELSE M1

\* HALT that prints but leaves the running flag set
trap_halt_keeps_running(M) == put_bytes(M, HALT_TEXT)

trap_halt(M) ==
    [put_bytes(M, HALT_TEXT) EXCEPT !.running = FALSE]

\* TRAP whose switch halts the machine on an undefined vector
op_trap_default_halt(M, instr, ub) ==
    LET M1 == [M EXCEPT !.reg[R_R7] = M.reg[R_PC]]
        trapvect8 == BitAnd(instr, 255)
    IN CASE trapvect8 = TRAP_GETC -> trap_getc(M1)
         [] trapvect8 = TRAP_OUT -> trap_out(M1)
         [] trapvect8 = TRAP_PUTS -> trap_puts(M1, ub)
         [] trapvect8 = TRAP_IN -> trap_in(M1)
         [] trapvect8 = TRAP_PUTSP -> trap_putsp(M1, ub)
         [] trapvect8 = TRAP_HALT -> trap_halt(M1)
         [] OTHER -> trap_halt(M1)

op_trap(M, instr, ub) ==
    LET M1 == [M EXCEPT !.reg[R_R7] = M.reg[R_PC]]
        trapvect8 == BitAnd(instr, 255)
    IN CASE trapvect8 = TRAP_GETC -> trap_getc(M1)
         [] trapvect8 = TRAP_OUT -> trap_out(M1)
         [] trapvect8 = TRAP_PUTS -> trap_puts(M1, ub)
         [] trapvect8 = TRAP_IN -> trap_in(M1)
         [] trapvect8 = TRAP_PUTSP -> trap_putsp(M1, ub)
         [] trapvect8 = TRAP_HALT -> trap_halt(M1)
         [] OTHER -> M1

(***************************************************************************)
(* Image loader                                                            *)
(***************************************************************************)
\* An image file is the sequence of its big-endian 16-bit words.  fread into
\* a uint16_t on the little-endian host delivers each word with its two bytes
\* exchanged.
fread_word(w) == (w % 256) * 256 + (w \div 256)

\* memory after the cells of DOMAIN f have been assigned the values of f
StoreAll(m, f) ==
    LET val(a) == IF a \in DOMAIN f THEN f[a] ELSE m[a]
    IN [a \in {x \in (DOMAIN m) \cup (DOMAIN f) : val(x) # 0} |-> val(a)]

Min(a, b) == IF a < b THEN a ELSE b

\* fread(p, sizeof(uint16_t), max_read, file) with p = memory + origin
fread_words(m, origin, payload, max_read) ==
    LET read == Min(max_read, Len(payload))
    IN StoreAll(m, [a \in origin .. (origin + read - 1) |->
                      fread_word(payload[a - origin + 1])])

\* while (read > 0) { *p = swap16(*p); ++p; --read; }
swap_loop(m, origin, read) ==
    StoreAll(m, [a \in origin .. (origin + read - 1) |-> swap16(Mem(m, a))])

read_image_file(m, file) ==
    LET origin == swap16(fread_word(Head(file.words)))
        max_read == U16(MAX_MEMORY - origin)
        payload == Tail(file.words)
        read == Min(max_read, Len(payload))
    IN swap_loop(fread_words(m, origin, payload, max_read), origin, read)

\* read_image returns 0 when fopen fails
read_image(file) == file.exists

(***************************************************************************)
(* Terminal                                                                *)
(***************************************************************************)
\* struct termios: the two local flags the program changes and the rest of
\* the attributes (TRUE: as the terminal had them, FALSE: all zero)
ZeroTio == [icanon |-> FALSE, echo |-> FALSE, rest |-> FALSE]

CookedTio == [icanon |-> TRUE, echo |-> TRUE, rest |-> TRUE]

\* new_tio.c_lflag &= ~ICANON & ~ECHO
RawOf(t) == [t EXCEPT !.icanon = FALSE, !.echo = FALSE]

(***************************************************************************)
(* Dispatch loop                                                           *)
(***************************************************************************)
\* the machine as the handlers see it
Machine ==
    [memory |-> memory, reg |-> reg, running |-> running, fd_in |-> fd_in,
     stdin_buf |-> stdin_buf, closed |-> closed, out |-> out, acc |-> <<>>,
     kbd |-> <<>>, crashed |-> FALSE]

\* fetch that leaves the program counter on the instruction being executed
fetch_no_increment(M) == mem_read_state(M, M.reg[R_PC])

\* uint16_t instruction = mem_read(reg[R_PC]); reg[R_PC]++;
fetch(M) ==
    LET M1 == mem_read_state(M, M.reg[R_PC])
    IN [M1 EXCEPT !.reg[R_PC] = U16(M1.reg[R_PC] + 1)]

fetched(M) == mem_read(M, M.reg[R_PC])

opcode_of(instruction) == Shr(instruction, 12)

\* the switch of main for the opcodes that have a handler
dispatch(M, instruction, ub) ==
    LET opcode == opcode_of(instruction)
    IN CASE opcode = OP_ADD -> op_add(M, instruction)
         [] opcode = OP_AND -> op_and(M, instruction)
         [] opcode = OP_NOT -> op_not(M, instruction)
         [] opcode = OP_BR -> op_br(M, instruction)
         [] opcode = OP_JMP -> op_jmp(M, instruction)
         [] opcode = OP_JSR -> op_jsr(M, instruction)
         [] opcode = OP_LD -> op_ld(M, instruction)
         [] opcode = OP_LDI -> op_ldi(M, instruction)
         [] opcode = OP_LDR -> op_ldr(M, instruction)
         [] opcode = OP_LEA -> op_lea(M, instruction)
         [] opcode = OP_ST -> op_st(M, instruction)
         [] opcode = OP_STI -> op_sti(M, instruction)
         [] opcode = OP_STR -> op_str(M, instruction)
         [] opcode = OP_TRAP -> op_trap(M, instruction, ub)

\* case OP_RES: case OP_RTI: default: abort();
bad_opcode(instruction) == opcode_of(instruction) \in {OP_RES, OP_RTI}

\* the instruction calls getchar() outside mem_read
reads_stdin(instruction) ==
    /\ opcode_of(instruction) = OP_TRAP
    /\ BitAnd(instruction, 255) \in {TRAP_GETC, TRAP_IN}

\* the instruction scans a string starting at reg[R_R0]
scans(instruction) ==
    /\ opcode_of(instruction) = OP_TRAP
    /\ BitAnd(instruction, 255) \in {TRAP_PUTS, TRAP_PUTSP}

(***************************************************************************)
(* Inputs: instruction words, image files, host bytes                      *)
(***************************************************************************)
\* a signed immediate as a field of the given width
Imm(v, width) == IF v < 0 THEN Pow2(width) + v ELSE v

ADDi(dr, sr1, v) == OP_ADD * 4096 + dr * 512 + sr1 * 64 + 32 + Imm(v, 5)
ADDr(dr, sr1, sr2) == OP_ADD * 4096 + dr * 512 + sr1 * 64 + sr2
ANDi(dr, sr1, v) == OP_AND * 4096 + dr * 512 + sr1 * 64 + 32 + Imm(v, 5)
ANDr(dr, sr1, sr2) == OP_AND * 4096 + dr * 512 + sr1 * 64 + sr2
NOTr(dr, sr) == OP_NOT * 4096 + dr * 512 + sr * 64 + 63
BRc(nzp, v) == OP_BR * 4096 + nzp * 512 + Imm(v, 9)
JMPr(base) == OP_JMP * 4096 + base * 64
JSRo(v) == OP_JSR * 4096 + 2048 + Imm(v, 11)
JSRRr(base) == OP_JSR * 4096 + base * 64
LDo(dr, v) == OP_LD * 4096 + dr * 512 + Imm(v, 9)
LDIo(dr, v) == OP_LDI * 4096 + dr * 512 + Imm(v, 9)
LDRo(dr, base, v) == OP_LDR * 4096 + dr * 512 + base * 64 + Imm(v, 6)
LEAo(dr, v) == OP_LEA * 4096 + dr * 512 + Imm(v, 9)
STo(sr, v) == OP_ST * 4096 + sr * 512 + Imm(v, 9)
STIo(sr, v) == OP_STI * 4096 + sr * 512 + Imm(v, 9)
STRo(sr, base, v) == OP_STR * 4096 + sr * 512 + base * 64 + Imm(v, 6)
TRAPv(vect) == OP_TRAP * 4096 + vect
RTIw == OP_RTI * 4096
RESw == OP_RES * 4096

\* first instruction of a generated program: sets up a register or a cell
SetupPool ==
    { BRc(0, 0), LEAo(0, 7), LEAo(1, 5), LDo(0, 2), LDo(1, 6), LDo(0, 3),
      ADDi(0, 0, -1), LDIo(0, 3), STo(0, 2), JSRo(0) }

\* second instruction of a generated program
InstrPool ==
    { ADDi(0, 0, 1), ADDi(0, 0, -1), ADDr(1, 0, 0), ANDi(0, 0, 0), ANDr(1, 0, 7),
      ANDi(0, 0, -2), NOTr(0, 0), NOTr(1, 0),
      BRc(7, 1), BRc(2, 1), BRc(4, -2), BRc(1, 2), BRc(0, 1),
      JMPr(7), JMPr(0), JSRo(1), JSRo(-2), JSRRr(0), JSRRr(7),
      LDo(0, 2), LDo(1, -1), LDo(1, 1), LDo(1, 5), LDIo(0, 2), LDIo(1, 3), LDIo(1, 4),
      LDRo(1, 0, 0), LDRo(0, 1, -1), LDRo(0, 1, 1), LDRo(1, 0, 2),
      LEAo(0, 0), LEAo(1, -3),
      STo(0, 5), STo(1, -1), STIo(0, 2), STIo(1, 3), STIo(0, 4), STRo(0, 1, 1),
      STRo(1, 0, 0),
      TRAPv(TRAP_GETC), TRAPv(TRAP_OUT), TRAPv(TRAP_PUTS), TRAPv(TRAP_IN),
      TRAPv(TRAP_PUTSP), TRAPv(TRAP_HALT), TRAPv(0), TRAPv(31), TRAPv(38),
      TRAPv(255), RTIw, RESw }

\* the words that follow the generated instructions: HALT, then data
ProgramTail ==
    << TRAPv(TRAP_HALT), 32767, MR_KBSR, MR_KBDR, 12291, 32769, 72, 26952, 0 >>

\* a file fopen can open: its path ("a") and its words
ExistingFile(origin, payload) ==
    [exists |-> TRUE, path |-> <<97>>, words |-> <<origin>> \o payload]

\* a path ("m") fopen cannot open
MissingFile == [exists |-> FALSE, path |-> <<109>>, words |-> <<>>]

GeneratedPrograms ==
    { ExistingFile(PC_START, <<w1, w2>> \o ProgramTail) :
        w1 \in SetupPool, w2 \in InstrPool }

\* JSR with the given offset; HALT; ADD R1,R1,#1; JMP R7
JsrRoundTrip(offset) ==
    ExistingFile(PC_START, <<JSRo(offset), TRAPv(TRAP_HALT), ADDi(1, 1, 1), JMPr(7)>>)

\* LEA R0,#0; ST R0,#5; LDI R1 through a pointer to KBSR; LD R2,#3;
\* LDR R3,R0,#6; HALT: a store to 0x3007, a keyboard poll, two loads of 0x3007
StorePollLoad ==
    ExistingFile(PC_START, <<LEAo(0, 0), STo(0, 5), LDIo(1, 3), LDo(2, 3), LDRo(3, 0, 6),
                             TRAPv(TRAP_HALT), MR_KBSR, 0>>)

\* the programs of the scenarios: immediate HALT; print "Hi"; two adds;
\* indirect load; subroutine round trip; keyboard polling loop; store, poll,
\* load
ScenarioPrograms ==
    { ExistingFile(PC_START, <<TRAPv(TRAP_HALT)>>),
      ExistingFile(PC_START, <<LEAo(0, 2), TRAPv(TRAP_PUTS), TRAPv(TRAP_HALT), 72, 105, 0>>),
      ExistingFile(PC_START, <<ADDi(0, 0, 5), ADDi(0, 0, -1), TRAPv(TRAP_HALT)>>),
      ExistingFile(PC_START, <<LDIo(0, 1), TRAPv(TRAP_HALT), 12304, 0, 0, 0, 0, 0, 0, 0,
                               0, 0, 0, 0, 0, 0, 170>>),
      JsrRoundTrip(1), JsrRoundTrip(2),
      ExistingFile(PC_START, <<LDIo(0, 3), BRc(3, -2), LDIo(1, 2), TRAPv(TRAP_HALT),
                               MR_KBSR, MR_KBDR>>),
      StorePollLoad }

\* LEA R0,#3; PUTSP; PUTS; HALT, then the string 0x6900, 0x6948, 0x0048 and
\* its terminator: a word with a zero low byte, a full word, a final word with
\* a zero high byte
PackedString ==
    ExistingFile(PC_START, <<LEAo(0, 3), TRAPv(TRAP_PUTSP), TRAPv(TRAP_PUTS),
                             TRAPv(TRAP_HALT), 26880, 26952, 72, 0>>)

\* an image whose origin is 0x0000
OriginZero == ExistingFile(0, <<TRAPv(TRAP_HALT), 72>>)

\* an image of two words whose origin is 0xFFFF: the second word does not fit
TopOfMemory == ExistingFile(MAX_MEMORY - 1, <<72, 105>>)

\* ADD R0,R0,#-1; PUTS or PUTSP; HALT: a string scan that starts at 0xFFFF
ScanFromTop(vect) ==
    ExistingFile(PC_START, <<ADDi(0, 0, -1), TRAPv(vect), TRAPv(TRAP_HALT)>>)

\* the command lines: none, one image, a missing file, or two images
ArgvSet ==
    { <<f>> : f \in GeneratedPrograms \cup ScenarioPrograms \cup {PackedString, OriginZero} }
    \cup { <<>>, <<MissingFile>>,
           <<ExistingFile(PC_START, <<TRAPv(TRAP_HALT)>>), MissingFile>>,
           <<ExistingFile(PC_START, <<TRAPv(TRAP_PUTS), TRAPv(TRAP_HALT)>>),
             ExistingFile(PC_START + 1, <<TRAPv(TRAP_OUT)>>)>>,
           <<ScanFromTop(TRAP_PUTS), TopOfMemory>>,
           <<ScanFromTop(TRAP_PUTSP), TopOfMemory>>,
           <<OriginZero, ExistingFile(PC_START, <<LDRo(0, 0, 1), TRAPv(TRAP_HALT)>>)>> }

\* the k-th byte the host supplies
HostByte(k) == 64 + k

\* number of bytes the host supplies at most
MaxInput == 2

\* number of instructions a run executes at most
MaxSteps == 6

\* no instruction executed yet
NoLast ==
    [a |-> -1, instr |-> 0, reg |-> [r \in 0 .. (R_COUNT - 1) |-> 0], memory |-> <<>>,
     fd_in |-> <<>>, stdin_buf |-> <<>>, closed |-> FALSE, out |-> <<>>,
     acc |-> <<>>, kbd |-> <<>>, prev_kbd |-> <<>>,
     post |-> [fd_in |-> <<>>, stdin_buf |-> <<>>, out |-> <<>>, phase |-> "load"],
     link |-> -1, stored |-> <<>>]

\* sign_extend not applied
NoSE == [x |-> 0, n |-> 1, y |-> -1]

(***************************************************************************)
(* Initial state: the process image before main runs                       *)
(***************************************************************************)
Init ==
    /\ memory = <<>>
    /\ reg = [r \in 0 .. (R_COUNT - 1) |-> 0]
    /\ running = TRUE
    /\ phase = "load"
    /\ argv \in ArgvSet
    /\ loaded = 0
    /\ handler = FALSE
    /\ start_tio = CookedTio
    /\ tio = CookedTio
    /\ orig_tio = ZeroTio
    /\ status = "none"
    /\ fd_in = <<>>
    /\ stdin_buf = <<>>
    /\ closed = FALSE
    /\ supplied = 0
    /\ out = <<>>
    /\ last = NoLast
    /\ steps = 0
    /\ se = NoSE

(***************************************************************************)
(* main                                                                    *)
(***************************************************************************)
\* "lc3 [image-file-1] ...\n"
USAGE_TEXT == <<108, 99, 51, 32, 91, 105, 109, 97, 103, 101, 45, 102, 105, 108, 101,
                45, 49, 93, 32, 46, 46, 46, 10>>

\* "failed to load image: "
FAILED_TEXT == <<102, 97, 105, 108, 101, 100, 32, 116, 111, 32, 108, 111, 97, 100,
                 32, 105, 109, 97, 103, 101, 58, 32>>

\* if (argc < 2) { printf(usage); exit(2); }
Usage ==
    /\ phase = "load"
    /\ Len(argv) = 0
    /\ out' = out \o USAGE_TEXT
    /\ status' = "2"
    /\ phase' = "exited"
    /\ UNCHANGED <<se, memory, reg, running, argv, loaded, handler, tio, orig_tio,
                   start_tio, fd_in, stdin_buf, closed, supplied, last, steps>>

\* one iteration of the loop over argv whose read_image succeeds
LoadImage ==
    /\ phase = "load"
    /\ loaded < Len(argv)
    /\ read_image(argv[loaded + 1])
    /\ memory' = read_image_file(memory, argv[loaded + 1])
    /\ loaded' = loaded + 1
    /\ UNCHANGED <<se, reg, running, phase, argv, handler, tio, orig_tio, start_tio,
                   status, fd_in, stdin_buf, closed, supplied, out, last, steps>>

\* one iteration of the loop over argv whose read_image fails
LoadFail ==
    /\ phase = "load"
    /\ loaded < Len(argv)
    /\ ~read_image(argv[loaded + 1])
    /\ out' = out \o FAILED_TEXT \o argv[loaded + 1].path \o <<10>>
    /\ status' = "1"
    /\ phase' = "exited"
    /\ UNCHANGED <<se, memory, reg, running, argv, loaded, handler, tio, orig_tio,
                   start_tio, fd_in, stdin_buf, closed, supplied, last, steps>>

\* signal(SIGINT, handle_interrupt)
InstallHandler ==
    /\ phase = "load"
    /\ Len(argv) > 0
    /\ loaded = Len(argv)
    /\ handler' = TRUE
    /\ phase' = "tty"
    /\ UNCHANGED <<se, memory, reg, running, argv, loaded, tio, orig_tio, start_tio,
                   status, fd_in, stdin_buf, closed, supplied, out, last, steps>>

\* a boot that sets the program counter but leaves COND as it is
Boot_keeps_cond ==
    /\ phase = "tty"
    /\ orig_tio' = tio
    /\ tio' = RawOf(tio)
    /\ reg' = [reg EXCEPT ![R_PC] = PC_START]
    /\ phase' = "run"
    /\ UNCHANGED <<se, memory, running, argv, loaded, handler, start_tio, status,
                   fd_in, stdin_buf, closed, supplied, out, last, steps>>

\* disable_input_buffering(); reg[R_COND] = FL_ZRO; reg[R_PC] = PC_START
Boot ==
    /\ phase = "tty"
    /\ orig_tio' = tio
    /\ tio' = RawOf(tio)
    /\ reg' = [reg EXCEPT ![R_COND] = FL_ZRO, ![R_PC] = PC_START]
    /\ phase' = "run"
    /\ UNCHANGED <<se, memory, running, argv, loaded, handler, start_tio, status,
                   fd_in, stdin_buf, closed, supplied, out, last, steps>>

\* the instruction writes R7: a destination register 7, or the linkage of
\* JSR, JSRR and TRAP
writes_r7(instruction) ==
    \/ opcode_of(instruction) \in {OP_JSR, OP_TRAP}
    \/ /\ opcode_of(instruction) \in {OP_ADD, OP_AND, OP_NOT, OP_LD, OP_LDI, OP_LDR, OP_LEA}
       /\ (instruction \div 512) % 8 = R_R7

\* history of the instruction fetched at reg[R_PC] that leaves the machine as
\* M in the given phase: the state before it, the memory-interface calls it
\* made, the values getchar() returned to its keyboard polls and to those of
\* the instruction before it, the input and output after it, the return address of the last
\* JSR with offset while R7 has not been written since (else -1), and the
\* value last stored by mem_write to each address
LastOf(M, instruction, ph) ==
    [a |-> reg[R_PC], instr |-> instruction, reg |-> reg, memory |-> memory,
     fd_in |-> fd_in, stdin_buf |-> stdin_buf, closed |-> closed, out |-> out,
     acc |-> M.acc, kbd |-> M.kbd, prev_kbd |-> last.kbd,
     post |-> [fd_in |-> M.fd_in, stdin_buf |-> M.stdin_buf, out |-> M.out, phase |-> ph],
     link |-> IF opcode_of(instruction) = OP_JSR /\ (instruction \div 2048) % 2 = 1
              THEN U16(reg[R_PC] + 1)
              ELSE IF writes_r7(instruction) THEN -1 ELSE last.link,
     stored |-> LET w == SelectSeq(M.acc, LAMBDA e : e[1] = "w")
                IN IF w = <<>> THEN last.stored
                   ELSE [x \in (DOMAIN last.stored) \cup {w[1][2]} |->
                           IF x = w[1][2] THEN w[1][3] ELSE last.stored[x]]]

\* one iteration of while (running) whose opcode has a handler.  A handler
\* that calls getchar() with nothing to return waits inside the instruction;
\* the iteration is taken when it can complete.
Execute ==
    /\ phase = "run"
    /\ running
    /\ steps < MaxSteps
    /\ LET instruction == fetched(Machine)
           M1 == fetch(Machine)
       IN /\ ~bad_opcode(instruction)
          /\ reads_stdin(instruction) => getchar_ready(M1)
          /\ \E ub \in (IF scans(instruction) /\ scan_overrun(M1.memory, M1.reg[R_R0])
                        THEN UBOutcomes ELSE {NoUB}) :
               LET M2 == dispatch(M1, instruction, ub)
               IN /\ memory' = M2.memory
                  /\ reg' = M2.reg
                  /\ running' = M2.running
                  /\ fd_in' = M2.fd_in
                  /\ stdin_buf' = M2.stdin_buf
                  /\ out' = M2.out
                  /\ phase' = IF M2.crashed THEN "killed" ELSE "run"
                  /\ status' = IF M2.crashed THEN "SIGSEGV" ELSE "none"
                  /\ last' = LastOf(M2, instruction, IF M2.crashed THEN "killed" ELSE "run")
    /\ steps' = steps + 1
    /\ UNCHANGED <<se, argv, loaded, handler, tio, orig_tio, start_tio, closed, supplied>>

\* one iteration of while (running) that decodes OP_RES or OP_RTI: abort()
Abort ==
    /\ phase = "run"
    /\ running
    /\ steps < MaxSteps
    /\ LET instruction == fetched(Machine)
           M1 == fetch(Machine)
       IN /\ bad_opcode(instruction)
          /\ memory' = M1.memory
          /\ reg' = M1.reg
          /\ fd_in' = M1.fd_in
          /\ stdin_buf' = M1.stdin_buf
          /\ last' = LastOf(M1, instruction, "aborted")
    /\ phase' = "aborted"
    /\ status' = "SIGABRT"
    /\ steps' = steps + 1
    /\ UNCHANGED <<se, running, argv, loaded, handler, tio, orig_tio, start_tio, closed,
                   supplied, out>>

\* the loop ends: restore_input_buffering(); main returns
Finish ==
    /\ phase = "run"
    /\ ~running
    /\ tio' = orig_tio
    /\ status' = "0"
    /\ phase' = "exited"
    /\ UNCHANGED <<se, memory, reg, running, argv, loaded, handler, orig_tio, start_tio,
                   fd_in, stdin_buf, closed, supplied, out, last, steps>>

\* handle_interrupt: SIGINT is delivered while the handler is installed
Interrupt ==
    /\ handler
    /\ phase \in {"tty", "run"}
    /\ tio' = orig_tio
    /\ out' = Append(out, 10)
    /\ status' = "254"
    /\ phase' = "exited"
    /\ UNCHANGED <<se, memory, reg, running, argv, loaded, handler, orig_tio, start_tio,
                   fd_in, stdin_buf, closed, supplied, last, steps>>

\* the host writes one more byte to standard input
HostSupply ==
    /\ status = "none"
    /\ ~closed
    /\ supplied < MaxInput
    /\ fd_in' = Append(fd_in, HostByte(supplied + 1))
    /\ supplied' = supplied + 1
    /\ UNCHANGED <<se, memory, reg, running, phase, argv, loaded, handler, tio, orig_tio,
                   start_tio, status, stdin_buf, closed, out, last, steps>>

\* the host closes standard input
HostClose ==
    /\ status = "none"
    /\ ~closed
    /\ closed' = TRUE
    /\ UNCHANGED <<se, memory, reg, running, phase, argv, loaded, handler, tio, orig_tio,
                   start_tio, status, fd_in, stdin_buf, supplied, out, last, steps>>

Next ==
    \/ Usage
    \/ LoadImage
    \/ LoadFail
    \/ InstallHandler
    \/ Boot
    \/ Execute
    \/ Abort
    \/ Finish
    \/ Interrupt
    \/ HostSupply
    \/ HostClose

Spec == Init /\ [][Next]_vars

\* the process keeps running: once the loop has ended, main goes on to
\* restore the terminal and return
FairSpec == Spec /\ WF_vars(Finish)

(***************************************************************************)
(* sign_extend applied to arbitrary arguments                              *)
(***************************************************************************)
\* largest x, together with 0xFFFF - x, that sign_extend is applied to
MaxX == 1023

\* x in 0 .. MaxX and the complements 0xFFFF - x; bit_count in 1 .. 16
InitSE ==
    /\ memory = <<>>
    /\ reg = [r \in 0 .. (R_COUNT - 1) |-> 0]
    /\ running = TRUE
    /\ phase = "sign_extend"
    /\ argv = <<>>
    /\ loaded = 0
    /\ handler = FALSE
    /\ start_tio = CookedTio
    /\ tio = CookedTio
    /\ orig_tio = ZeroTio
    /\ status = "none"
    /\ fd_in = <<>>
    /\ stdin_buf = <<>>
    /\ closed = FALSE
    /\ supplied = 0
    /\ out = <<>>
    /\ last = NoLast
    /\ steps = 0
    /\ \E x \in 0 .. MaxX, c \in BOOLEAN, n \in 1 .. 16 :
         se = [x |-> IF c THEN (MAX_MEMORY - 1) - x ELSE x, n |-> n, y |-> -1]

ApplySignExtend ==
    /\ phase = "sign_extend"
    /\ se.y = -1
    /\ se' = [se EXCEPT !.y = sign_extend(se.x, se.n)]
    /\ UNCHANGED <<memory, reg, running, phase, argv, loaded, handler, tio, orig_tio,
                   start_tio, status, fd_in, stdin_buf, closed, supplied, out, last,
                   steps>>

NextSE == ApplySignExtend

SpecSE == InitSE /\ [][NextSE]_vars

(***************************************************************************)
(* Properties                                                              *)
(***************************************************************************)
\* the two's-complement value of a field of the given width
Signed(v, width) == IF v >= Pow2(width - 1) THEN v - Pow2(width) ELSE v

\* the flag that agrees with the two's-complement sign of a 16-bit value
FlagOf(v) == IF v >= 32768 THEN FL_NEG ELSE IF v = 0 THEN FL_ZRO ELSE FL_POS

\* an instruction has been executed; its opcode and its bits 11..9
Executed == last.a # -1

LastOp == last.instr \div 4096

LastDR == (last.instr \div 512) % 8

\* the address following the last instruction
LastNext == (last.a + 1) % MAX_MEMORY

\* BR is taken: a condition bit is set in both nzp and the COND before
LastTaken ==
    \E k \in 0 .. 2 : /\ (LastDR \div Pow2(k)) % 2 = 1
                      /\ (last.reg[R_COND] \div Pow2(k)) % 2 = 1

\* C1: the program counter is incremented before the handler runs: after an
\* instruction fetched at a that is not BR, JMP or JSR, PC = a + 1; a taken BR
\* goes to a + 1 + offset9; LD, ST, LDI, STI access a + 1 + offset9 first; LEA
\* yields a + 1 + offset9; JSR with bit 11 goes to a + 1 + offset11; all
\* modulo 2^16.
C1_PostIncrementPC ==
    Executed =>
      LET ea9 == (last.a + 1 + Signed(last.instr % 512, 9)) % MAX_MEMORY
          ea11 == (last.a + 1 + Signed(last.instr % 2048, 11)) % MAX_MEMORY
      IN /\ LastOp \notin {OP_BR, OP_JMP, OP_JSR} => reg[R_PC] = LastNext
         /\ LastOp = OP_BR /\ LastTaken => reg[R_PC] = ea9
         /\ LastOp \in {OP_LD, OP_LDI, OP_STI} =>
              last.acc[2][1] = "r" /\ last.acc[2][2] = ea9
         /\ LastOp = OP_ST => last.acc[2][1] = "w" /\ last.acc[2][2] = ea9
         /\ LastOp = OP_LEA => reg[LastDR] = ea9
         /\ LastOp = OP_JSR /\ (last.instr \div 2048) % 2 = 1 => reg[R_PC] = ea11

\* a BR with a negative offset, fetched at 0x3001, was taken to 0x3000
C1_Witness ==
    /\ last.a = PC_START + 1
    /\ last.instr = BRc(4, -2)
    /\ LastTaken
    /\ reg[R_PC] = PC_START

\* C2: after ADD, AND, NOT, LD, LDI, LDR or LEA, COND is the one flag that
\* agrees with the sign of the new value of DR; LEA R0,#0 fetched at 0x3000
\* gives R0 = 0x3001 and COND = POS; from boot on COND is one of 1, 2, 4.
C2_FlagsFollowDR ==
    /\ Executed /\ LastOp \in {OP_ADD, OP_AND, OP_NOT, OP_LD, OP_LDI, OP_LDR, OP_LEA}
         => reg[R_COND] = FlagOf(reg[LastDR])
    /\ Executed /\ last.a = PC_START /\ last.instr = LEAo(0, 0)
         => reg[R_R0] = PC_START + 1 /\ reg[R_COND] = FL_POS
    /\ phase = "run" \/ Executed => reg[R_COND] \in {FL_POS, FL_ZRO, FL_NEG}

\* LEA R0,#0 fetched at 0x3000 has been executed
C2_Witness ==
    /\ last.a = PC_START
    /\ last.instr = LEAo(0, 0)
    /\ reg[R_R0] = PC_START + 1

\* the opcodes whose handler calls update_condition_flags
FlagOps == {OP_ADD, OP_AND, OP_NOT, OP_LD, OP_LDI, OP_LDR, OP_LEA}

LastVect == last.instr % 256

\* C3 as stated: after every write to a general register, the R7 write of
\* JSR, JSRR and TRAP and the R0 write of GETC and IN included, COND is one of
\* NEG, ZRO, POS and agrees with the sign of the register just written.
C3_Original ==
    Executed /\ last.post.phase = "run" =>
      /\ reg[R_COND] \in {FL_POS, FL_ZRO, FL_NEG}
      /\ LastOp \in FlagOps => reg[R_COND] = FlagOf(reg[LastDR])
      /\ LastOp = OP_JSR => reg[R_COND] = FlagOf(reg[R_R7])
      /\ LastOp = OP_TRAP /\ LastVect \notin {TRAP_GETC, TRAP_IN}
           => reg[R_COND] = FlagOf(reg[R_R7])
      /\ LastOp = OP_TRAP /\ LastVect \in {TRAP_GETC, TRAP_IN}
           => reg[R_COND] = FlagOf(reg[R_R0])

\* C3 (amended): a general register changed by ADD, AND, NOT, LD, LDI, LDR or
\* LEA is the destination register and COND agrees with its sign afterwards;
\* JSR, JSRR and TRAP change only R7 (GETC and IN also R0) and leave COND as
\* it was; COND is one of NEG, ZRO, POS throughout.
C3_FlagsOnlyFromFlagOps ==
    Executed =>
      /\ reg[R_COND] \in {FL_POS, FL_ZRO, FL_NEG}
      /\ \A r \in R_R0 .. R_R7 :
           reg[r] # last.reg[r] =>
             \/ LastOp \in FlagOps /\ r = LastDR /\ reg[R_COND] = FlagOf(reg[r])
             \/ LastOp \in {OP_JSR, OP_TRAP} /\ r = R_R7
             \/ LastOp = OP_TRAP /\ LastVect \in {TRAP_GETC, TRAP_IN} /\ r = R_R0
      /\ LastOp \in {OP_JSR, OP_TRAP} => reg[R_COND] = last.reg[R_COND]

\* GETC has put the first host byte, a positive value, into R0 and COND is ZRO
C3_Witness ==
    /\ last.instr = TRAPv(TRAP_GETC)
    /\ reg[R_R0] = HostByte(1)
    /\ reg[R_R7] = LastNext
    /\ reg[R_COND] = FL_ZRO

\* the bytes the host has supplied that the program has not been given yet
Pending(buf, fd) == buf \o fd

\* the reads of KBSR among the memory-interface calls of the last instruction
LastKbsrReads == SelectSeq(last.acc, LAMBDA e : e[1] = "r" /\ e[2] = MR_KBSR)

\* C4 as stated: a read of KBSR with a byte pending consumes exactly that
\* byte, sets KBSR = 0x8000 and KBDR = the byte and returns 0x8000; with none
\* pending it sets KBSR = 0, consumes nothing and returns 0; a read of KBDR by
\* the instruction after a KBSR read that returned bit 15 yields the byte
\* that read consumed.
C4_KbsrPoll ==
    /\ Executed /\ Len(LastKbsrReads) = 1 =>
         LET before == Pending(last.stdin_buf, last.fd_in)
             after == Pending(last.post.stdin_buf, last.post.fd_in)
             value == LastKbsrReads[1][3]
         IN IF before # <<>>
            THEN /\ value = 32768
                 /\ after = Tail(before)
                 /\ Mem(memory, MR_KBSR) = 32768
                 /\ Mem(memory, MR_KBDR) = Head(before)
            ELSE /\ value = 0
                 /\ after = <<>>
                 /\ Mem(memory, MR_KBSR) = 0
    /\ Executed /\ last.prev_kbd # <<>> =>
         \A i \in 1 .. Len(last.acc) :
           last.acc[i][1] = "r" /\ last.acc[i][2] = MR_KBDR
             => last.acc[i][3] = last.prev_kbd[Len(last.prev_kbd)]

IsHalt(instruction) == instruction \div 4096 = OP_TRAP /\ instruction % 256 = TRAP_HALT

\* a step of the dispatch loop that executes HALT
HaltStep == phase = "run" /\ steps' = steps + 1 /\ IsHalt(last'.instr)

C5_Step ==
    /\ HaltStep => out' = out \o HALT_TEXT /\ ~running'
    /\ ~running => /\ reg' = reg
                   /\ memory' = memory
                   /\ steps' = steps
                   /\ last' = last
                   /\ ~running'
    /\ ~running /\ phase' # "run" => phase' = "exited" /\ tio' = start_tio
    /\ running /\ ~running' => HaltStep

\* C5: HALT emits "HALT\n" and clears the running flag; afterwards no
\* instruction is fetched or executed and no register or memory cell
\* changes; the process then exits with the terminal as it was at the start;
\* only HALT clears the running flag.
C5_Halt ==
    /\ [][C5_Step]_vars
    /\ ~running ~> (phase = "exited" /\ tio = start_tio)

\* the machine has halted and main has returned
C5_Witness ==
    /\ ~running
    /\ IsHalt(last.instr)
    /\ phase = "exited"
    /\ status = "0"
    /\ tio = start_tio

\* C6 as stated: decoding RTI or RES ends the process by abort with nothing
\* but the program counter changed by the fatal instruction and with the
\* terminal restored to its original mode.
C6_FatalOpcode ==
    /\ Executed /\ LastOp \in {OP_RTI, OP_RES} => phase = "aborted"
    /\ phase = "aborted" =>
         /\ LastOp \in {OP_RTI, OP_RES}
         /\ status = "SIGABRT"
         /\ reg = [last.reg EXCEPT ![R_PC] = LastNext]
         /\ memory = last.memory
         /\ tio = start_tio

\* the linkage and the return of a subroutine call: JSR with bit 11 fetched
\* at a sets R7 = a + 1 and PC = a + 1 + offset11; JMP R7 executed while R7
\* has not been written since that JSR sets PC = a + 1
JsrLinkage ==
    /\ Executed /\ LastOp = OP_JSR /\ (last.instr \div 2048) % 2 = 1 =>
         /\ reg[R_R7] = LastNext
         /\ reg[R_PC] = (last.a + 1 + Signed(last.instr % 2048, 11)) % MAX_MEMORY
         /\ last.link = LastNext
    /\ Executed /\ last.instr = JMPr(R_R7) /\ last.link # -1 => reg[R_PC] = last.link

\* the run of JSR +offset; HALT; ADD R1,R1,#1; JMP R7 has halted
Halted(file) == argv = <<file>> /\ ~running

\* C7 as stated: the linkage above, and the program JSR +2; HALT;
\* ADD R1,R1,#1; JMP R7 at 0x3000 ends with R1 = 1, halted by the first HALT.
C7_Original ==
    /\ JsrLinkage
    /\ Halted(JsrRoundTrip(2)) => reg[1] = 1 /\ last.a = PC_START + 1

\* C7 (amended): the linkage above; JSR +2 transfers to 0x3003, the JMP R7,
\* so the program JSR +2; HALT; ADD R1,R1,#1; JMP R7 ends with R1 = 0, halted
\* by the first HALT; with JSR +1 it ends with R1 = 1, halted by the first
\* HALT.
C7_JsrRoundTrip ==
    /\ JsrLinkage
    /\ Halted(JsrRoundTrip(2)) => reg[1] = 0 /\ last.a = PC_START + 1
    /\ Halted(JsrRoundTrip(1)) => reg[1] = 1 /\ last.a = PC_START + 1

\* JSR +2; HALT; ADD; JMP R7 has halted after three instructions: the JSR, the
\* JMP R7 and the first HALT
C7_Witness ==
    /\ Halted(JsrRoundTrip(2))
    /\ last.a = PC_START + 1
    /\ IsHalt(last.instr)
    /\ reg[1] = 0
    /\ steps = 3

\* the last memory-interface call of the last instruction
LastAccess == last.acc[Len(last.acc)]

\* C8: a load (LD, LDR, LDI) from an address other than KBSR and KBDR
\* returns the value most recently stored there by ST, STR or STI, whatever
\* fetches, keyboard polls and host input came in between.
C8_StoreThenLoad ==
    Executed /\ LastOp \in {OP_LD, OP_LDR, OP_LDI} =>
      /\ LastAccess[1] = "r"
      /\ LastAccess[2] \notin {MR_KBSR, MR_KBDR} /\ LastAccess[2] \in DOMAIN last.stored
           => /\ LastAccess[3] = last.stored[LastAccess[2]]
              /\ reg[LastDR] = last.stored[LastAccess[2]]

\* 0x3001 was stored to 0x3007, a keyboard poll then took a byte, and LD R2
\* has loaded 0x3007
C8_Witness ==
    /\ argv = <<StorePollLoad>>
    /\ last.instr = LDo(2, 3)
    /\ LastAccess[2] = PC_START + 7
    /\ last.stored[PC_START + 7] = PC_START + 1
    /\ Mem(memory, MR_KBSR) = 32768
    /\ Mem(memory, MR_KBDR) = HostByte(1)

\* C9: TRAP with a vector outside 0x20..0x25 writes the incremented PC to R7
\* and changes nothing else: R0..R6, COND, memory and the running flag stay,
\* no input is consumed, no output is emitted, and the loop continues.
C9_UndefinedTrap ==
    Executed /\ LastOp = OP_TRAP /\ LastVect \notin TRAP_GETC .. TRAP_HALT =>
      /\ reg = [last.reg EXCEPT ![R_R7] = LastNext, ![R_PC] = LastNext]
      /\ memory = last.memory
      /\ running
      /\ last.post.fd_in = last.fd_in
      /\ last.post.stdin_buf = last.stdin_buf
      /\ last.post.out = last.out
      /\ last.post.phase = "run"

\* TRAP 0xFF has been executed with input waiting
C9_Witness ==
    /\ last.instr = TRAPv(255)
    /\ reg[R_R7] = LastNext
    /\ last.fd_in # <<>>

\* the 16-bit value whose low n bits are those of x and whose bits n..15 all
\* equal bit n-1 of x
Extension(x, n) ==
    LET low == x % Pow2(n)
    IN IF low >= Pow2(n - 1) THEN low + (MAX_MEMORY - Pow2(n)) ELSE low

LastSR1 == (last.instr \div 64) % 8

LastSR2 == last.instr % 8

\* C11: every register and every memory cell holds a value in 0..0xFFFF; ADD
\* yields (SR1 + operand) mod 2^16, so 0 + (-1) gives 0xFFFF with COND = NEG,
\* 0x7FFF + 1 gives 0x8000 with COND = NEG and 0xFFFF + 1 gives 0; NOT of 0
\* gives 0xFFFF with COND = NEG; the increment of the PC of an instruction
\* fetched at 0xFFFF gives 0.
C11_SixteenBitWrap ==
    /\ \A r \in 0 .. (R_COUNT - 1) : reg[r] \in Word
    /\ \A a \in DOMAIN memory : a \in Word /\ memory[a] \in Word
    /\ Executed /\ LastOp = OP_ADD =>
         LET operand == IF (last.instr \div 32) % 2 = 1
                        THEN Signed(last.instr % 32, 5)
                        ELSE last.reg[LastSR2]
         IN reg[LastDR] = (last.reg[LastSR1] + operand + MAX_MEMORY) % MAX_MEMORY
    /\ Executed /\ last.instr = ADDi(0, 0, -1) /\ last.reg[0] = 0
         => reg[0] = 65535 /\ reg[R_COND] = FL_NEG
    /\ Executed /\ last.instr = ADDi(0, 0, 1) /\ last.reg[0] = 32767
         => reg[0] = 32768 /\ reg[R_COND] = FL_NEG
    /\ Executed /\ last.instr = ADDi(0, 0, 1) /\ last.reg[0] = 65535
         => reg[0] = 0 /\ reg[R_COND] = FL_ZRO
    /\ Executed /\ LastOp = OP_NOT /\ last.reg[LastSR1] = 0
         => reg[LastDR] = 65535 /\ reg[R_COND] = FL_NEG
    /\ Executed /\ LastOp = OP_NOT => reg[LastDR] + last.reg[LastSR1] = 65535
    /\ Executed /\ last.a = MAX_MEMORY - 1
         /\ (LastOp \notin {OP_BR, OP_JMP, OP_JSR} \/ (LastOp = OP_BR /\ ~LastTaken))
         => reg[R_PC] = 0

\* ADD R0,R0,#1 has been executed with R0 = 0xFFFF and left R0 = 0
C11_Witness ==
    /\ last.instr = ADDi(0, 0, 1)
    /\ last.reg[0] = 65535
    /\ reg[0] = 0
    /\ reg[R_COND] = FL_ZRO

\* the words of the string at address a: the cells from a upwards, up to but
\* excluding the first zero word
RECURSIVE StringAt(_, _)
StringAt(m, a) ==
    IF a >= MAX_MEMORY \/ Mem(m, a) = 0 THEN <<>>
    ELSE <<Mem(m, a)>> \o StringAt(m, a + 1)

\* the string at address a ends with a zero word at or below 0xFFFF
Terminated(m, a) == a + Len(StringAt(m, a)) < MAX_MEMORY

\* one byte per word: the low byte
LowBytes(ws) == [i \in 1 .. Len(ws) |-> ws[i] % 256]

\* per word the low byte, then the high byte if it is not zero
RECURSIVE PackedBytes(_)
PackedBytes(ws) ==
    IF ws = <<>> THEN <<>>
    ELSE <<Head(ws) % 256>>
         \o (IF Head(ws) \div 256 # 0 THEN <<Head(ws) \div 256>> ELSE <<>>)
         \o PackedBytes(Tail(ws))

\* the cells the last instruction read in its string scan
LastScan == SelectSeq(last.acc, LAMBDA e : e[1] = "s")

\* C12: PUTS and PUTSP process the cells from address R0 upwards, in
\* increasing address order, up to but excluding the first zero word; PUTS
\* emits the low byte of each, PUTSP the low byte and then the high byte if
\* it is not zero; a zero low byte does not end the string and a zero high
\* byte emits nothing; nothing but R7 and PC changes.
C12_StringOutput ==
    /\ Executed /\ scans(last.instr) /\ Terminated(last.memory, last.reg[R_R0]) =>
         LET ws == StringAt(last.memory, last.reg[R_R0])
         IN /\ last.post.out = last.out \o (IF LastVect = TRAP_PUTS THEN LowBytes(ws)
                                              ELSE PackedBytes(ws))
            /\ Len(LastScan) = Len(ws) + 1
            /\ \A i \in 1 .. Len(LastScan) : LastScan[i][2] = last.reg[R_R0] + i - 1
            /\ \A i \in 1 .. Len(LastScan) : (LastScan[i][3] = 0) = (i = Len(LastScan))
            /\ reg = [last.reg EXCEPT ![R_R7] = LastNext, ![R_PC] = LastNext]
            /\ memory = last.memory
            /\ last.post.phase = "run"
    /\ argv = <<PackedString>> /\ last.instr = TRAPv(TRAP_PUTSP)
         => last.post.out = <<0, 105, 72, 105, 72>>
    /\ argv = <<PackedString>> /\ last.instr = TRAPv(TRAP_PUTS)
         => last.post.out = <<0, 105, 72, 105, 72, 0, 72, 72>>

\* PUTSP has emitted the string 0x6900, 0x6948, 0x0048
C12_Witness ==
    /\ argv = <<PackedString>>
    /\ last.instr = TRAPv(TRAP_PUTSP)
    /\ last.reg[R_R0] = PC_START + 4
    /\ out = <<0, 105, 72, 105, 72>>

\* the addresses an image file covers: origin + i for i < min(k, 65536 - origin),
\* k the number of its payload words
Covered(file) ==
    LET o == Head(file.words)
        k == Len(file.words) - 1
    IN { o + i : i \in 0 .. (Min(k, MAX_MEMORY - o) - 1) }

\* the value of cell a after the first n images of the command line: the
\* payload word of the last image that covers a, 0 if none does
RECURSIVE LoadedValue(_, _)
LoadedValue(n, a) ==
    IF n = 0 THEN 0
    ELSE IF a \in Covered(argv[n]) THEN argv[n].words[a - Head(argv[n].words) + 2]
    ELSE LoadedValue(n - 1, a)

\* the addresses covered by the first n images of the command line
CoveredBy(n) == UNION { Covered(argv[i]) : i \in 1 .. n }

\* C13 as stated: after the images loaded so far, origin 0 included, every
\* cell covered by an image holds the payload word of the last image covering
\* it, for the first min(k, 65536 - o) words of each image, and every other
\* cell is unchanged (zero).
C13_Loader ==
    steps = 0 /\ phase # "sign_extend" =>
      \A a \in (DOMAIN memory) \cup CoveredBy(loaded) :
        Mem(memory, a) = LoadedValue(loaded, a)

\* C14: BR sets PC to (post-increment PC + sign-extended PCoffset9) mod 2^16
\* if and only if nzp and COND have a bit in common and leaves it at the
\* post-increment value otherwise; with nzp = 0 it never branches; it changes
\* no general register, not COND and no memory cell.
C14_Branch ==
    Executed /\ LastOp = OP_BR =>
      LET ea9 == (last.a + 1 + Signed(last.instr % 512, 9)) % MAX_MEMORY
      IN /\ reg[R_PC] = IF LastTaken THEN ea9 ELSE LastNext
         /\ LastDR = 0 => reg[R_PC] = LastNext
         /\ reg = [last.reg EXCEPT ![R_PC] = reg[R_PC]]
         /\ last.a # MR_KBSR => memory = last.memory
         /\ last.post.out = last.out
         /\ last.post.phase = "run"

\* BR with nzp = 0 and a non-zero offset has fallen through with COND = NEG
C14_Witness ==
    /\ last.instr = BRc(0, 1)
    /\ last.reg[R_COND] = FL_NEG
    /\ reg[R_PC] = LastNext

\* the registers at boot: all zero but PC = 0x3000 and COND = ZRO
BootRegs == [r \in 0 .. (R_COUNT - 1) |->
               IF r = R_PC THEN PC_START ELSE IF r = R_COND THEN FL_ZRO ELSE 0]

\* every file named on the command line can be opened
AllExist == \A i \in 1 .. Len(argv) : argv[i].exists

\* C15: when the first instruction is fetched, PC = 0x3000, COND = ZRO,
\* R0..R7 are zero, the running flag is set and every cell outside the loaded
\* images is zero; no instruction is fetched before all images are loaded;
\* if an image fails to open, no instruction is ever executed and the process
\* exits with status 1.
C15_BootState ==
    /\ phase = "run" /\ steps = 0 =>
         /\ reg = BootRegs
         /\ running
         /\ loaded = Len(argv) /\ Len(argv) > 0 /\ AllExist
         /\ (DOMAIN memory) \subseteq CoveredBy(Len(argv))
    /\ steps >= 1 => Executed
    /\ steps = 1 => last.a = PC_START /\ last.reg = BootRegs
                     /\ (DOMAIN last.memory) \subseteq CoveredBy(Len(argv))
    /\ Executed => loaded = Len(argv) /\ Len(argv) > 0 /\ AllExist
    /\ ~AllExist => /\ ~Executed /\ steps = 0
                    /\ phase \in {"load", "exited"}
                    /\ phase = "exited" => status = "1"
                    /\ reg = [r \in 0 .. (R_COUNT - 1) |-> 0]

\* two images have been loaded and the first instruction is about to be
\* fetched
C15_Witness ==
    /\ phase = "run"
    /\ steps = 0
    /\ Len(argv) = 2
    /\ loaded = 2
    /\ reg[R_PC] = PC_START
    /\ reg[R_COND] = FL_ZRO
    /\ Mem(memory, PC_START) # 0

\* states of the host input other than the one the run met: nothing, end of
\* file, bytes on the descriptor, bytes in the stdio buffer
HostStates ==
    { [fd_in |-> <<>>, stdin_buf |-> <<>>, closed |-> FALSE],
      [fd_in |-> <<>>, stdin_buf |-> <<>>, closed |-> TRUE],
      [fd_in |-> <<HostByte(2)>>, stdin_buf |-> <<>>, closed |-> FALSE],
      [fd_in |-> <<>>, stdin_buf |-> <<HostByte(1)>>, closed |-> FALSE],
      [fd_in |-> <<HostByte(1), HostByte(2)>>, stdin_buf |-> <<>>, closed |-> TRUE],
      [fd_in |-> <<HostByte(1)>>, stdin_buf |-> <<HostByte(2)>>, closed |-> TRUE] }

\* the machine before the last instruction, with host input h
Before(h) ==
    [memory |-> last.memory, reg |-> last.reg, running |-> TRUE, fd_in |-> h.fd_in,
     stdin_buf |-> h.stdin_buf, closed |-> h.closed, out |-> last.out, acc |-> <<>>,
     kbd |-> <<>>, crashed |-> FALSE]

\* the last iteration of the dispatch loop run again with host input h
Rerun(h, ub) ==
    IF bad_opcode(last.instr) THEN fetch(Before(h))
    ELSE dispatch(fetch(Before(h)), last.instr, ub)

\* the last instruction read KBSR through the memory interface (load, pointer
\* read or fetch) or was TRAP GETC or IN
LastIsIO == LastKbsrReads # <<>> \/ reads_stdin(last.instr)

\* the registers, memory, running flag, output and fate of the process after
\* the last instruction are those of machine M
SameOutcome(M) ==
    /\ M.reg = reg
    /\ M.memory = memory
    /\ M.running = running
    /\ M.out = last.post.out
    /\ M.crashed = (last.post.phase = "killed")

\* a step of the host: a byte supplied or standard input closed
HostStep == supplied' # supplied \/ closed' # closed

\* C16: the state after an instruction that neither reads KBSR nor is GETC or
\* IN is the same whatever the host input is, given the state before it (and
\* what lies beyond the memory array, if a string scan reads there); a step
\* of the host changes no register, no memory cell, no output and not the
\* running flag. Two runs of a program made of such instructions from the
\* same memory and registers therefore pass through the same states.
C16_Deterministic ==
    /\ [](Executed /\ ~LastIsIO =>
            \E ub \in (IF scans(last.instr) THEN UBOutcomes ELSE {NoUB}) :
              \A h \in HostStates : SameOutcome(Rerun(h, ub)))
    /\ [][HostStep => UNCHANGED <<reg, memory, running, out, phase, steps, last>>]_vars

\* a load from KBDR, which is not a read of KBSR, was executed with a byte
\* waiting on standard input
C16_Witness ==
    /\ Executed
    /\ ~LastIsIO
    /\ LastAccess[1] = "r" /\ LastAccess[2] = MR_KBDR
    /\ last.fd_in # <<>>

\* C17 as stated: whenever SIGINT is delivered after the handler has been
\* installed, also before the terminal has been switched to raw mode, the
\* process exits with a non-zero status and the terminal attributes it had
\* when it started.
C17_InterruptRestores ==
    status = "254" => /\ phase = "exited"
                      /\ handler
                      /\ tio = start_tio

\* the words a scan that advances modulo 2^16 processes from address a: up to
\* but excluding the first zero word, at most n of them
RECURSIVE StringWrap(_, _, _)
StringWrap(m, a, n) ==
    IF n = 0 \/ Mem(m, a) = 0 THEN <<>>
    ELSE <<Mem(m, a)>> \o StringWrap(m, (a + 1) % MAX_MEMORY, n - 1)

\* C18 as stated: for every R0 and every memory content, the string scan of
\* PUTS and PUTSP reads only cells at addresses 0x0000..0xFFFF, advancing
\* modulo 2^16, and stops at the first zero word it meets; the output is
\* that of the words before it.
C18_ScanInBounds ==
    Executed /\ scans(last.instr) =>
      LET ws == StringWrap(last.memory, last.reg[R_R0], MAX_MEMORY)
      IN /\ \A i \in 1 .. Len(LastScan) : LastScan[i][2] \in Word
         /\ LastScan[Len(LastScan)][3] = 0
         /\ last.post.phase = "run"
         /\ last.post.out = last.out \o (IF LastVect = TRAP_PUTS THEN LowBytes(ws)
                                           ELSE PackedBytes(ws))

\* the last instruction is JSR with bit 11 clear (JSRR)
LastIsJsrr == Executed /\ LastOp = OP_JSR /\ (last.instr \div 2048) % 2 = 0

\* C19 as stated: JSRR transfers control to the value BaseR held before the
\* instruction, for all eight registers, R7 included, and R7 receives the
\* post-increment PC.
C19_Jsrr ==
    LastIsJsrr => /\ reg[R_PC] = last.reg[LastSR1]
                  /\ reg[R_R7] = LastNext

\* C20 as stated: host input is consumed in arrival order, one byte per
\* consuming event: each read of KBSR through the memory interface made while
\* a byte is pending takes the next byte into KBDR and sets KBSR bit 15 (a
\* second KBSR read before any KBDR read thus overwrites KBDR with the next
\* byte), GETC and IN take the next byte into R0, and nothing else consumes
\* input; a load from KBDR consumes nothing and changes no memory cell, so
\* KBSR keeps bit 15 until the next KBSR read.
C20_InputConsumption ==
    Executed =>
      LET before == Pending(last.stdin_buf, last.fd_in)
          after == Pending(last.post.stdin_buf, last.post.fd_in)
          polls == Min(Len(LastKbsrReads), Len(before))
          traps == IF reads_stdin(last.instr) /\ Len(before) > polls THEN 1 ELSE 0
      IN /\ after = SubSeq(before, polls + traps + 1, Len(before))
         /\ polls > 0 => /\ Mem(memory, MR_KBDR) = before[polls]
                         /\ Mem(memory, MR_KBSR) = 32768
         /\ traps = 1 => reg[R_R0] = before[polls + 1]
         /\ LastOp \in {OP_LD, OP_LDR, OP_LDI} /\ LastAccess[2] = MR_KBDR
              /\ LastKbsrReads = <<>>
              => /\ memory = last.memory
                 /\ reg[LastDR] = Mem(last.memory, MR_KBDR)
====
